---- MODULE Spec2Model ----
(***************************************************************************)
(* Model of strichliste/views.py: the transaction-creation handlers of     *)
(* UserTransactionViewSet running as concurrent requests against one       *)
(* database.  `with transaction.atomic()` is modelled as a READ COMMITTED  *)
(* database transaction (Django's default isolation level): a statement    *)
(* sees the committed rows plus the rows of its own transaction, an UPDATE *)
(* takes a row lock that is held until commit or rollback, and the         *)
(* database aborts one member of a lock cycle.                             *)
(***************************************************************************)
EXTENDS Integers, FiniteSets, Sequences, TLC

\* ---- bounds of the model ----
\* users 1..NumUsers are registered, every balance 0
NumUsers == 4
\* HTTP requests handled in one behaviour
MaxRequests == 2
\* requests that may be in progress at the same time
NumWorkers == 2

\* ---- configuration of the value validator (strichliste.settings) ----
TransactionBoundaryUpper == 2
TransactionBoundaryLower == -1

\* ---- HTTP status codes used by the handlers ----
HTTP_200_OK == 200
HTTP_201_CREATED == 201
HTTP_400_BAD_REQUEST == 400
HTTP_403_FORBIDDEN == 403
HTTP_404_NOT_FOUND == 404
HTTP_409_CONFLICT == 409
HTTP_500_INTERNAL_SERVER_ERROR == 500

\* Python None in an integer field (double_entry_id, no transaction, no lock).
Null == 0

Requests == 1..MaxRequests
UserIds == 1..NumUsers
\* values a request may carry: zero, in range on both legs, in range on
\* leg 1 only, out of range (leg 2 carries the negative values).
ValueInputs == 0..(TransactionBoundaryUpper + 1)

VARIABLES
    users,          \* User table, committed versions: id -> [balance]
    dirty,          \* User table, uncommitted versions: id -> [xact, balance]
    locks,          \* row locks of the User table: lock -> holding request
    transactions,   \* Transaction table: rows [id, user, value, double_entry_id, xact]
    nextId,         \* auto-increment sequence of Transaction.id
    req,            \* per request: position in the handler and its locals
    nextRequest,    \* number of the next request to arrive
    names,          \* User table, column name (unique): id -> name
    nextUserId      \* auto-increment sequence of User.id

vars == <<users, dirty, locks, transactions, nextId, req, nextRequest,
          names, nextUserId>>

\* what only UserViewSet.create and the debug command clear write
userTable == <<names, nextUserId>>

\* an id no user has: the next one of the sequence
UnknownUser == nextUserId

store == <<users, dirty, locks, transactions, nextId>>

\* ---- the request record ----
IdleRequest ==
    [pc |-> "idle", kind |-> "none", user_pk |-> Null, dst |-> Null, value |-> 0,
     src_balance |-> 0, dst_balance |-> 0, tx1 |-> Null, tx2 |-> Null,
     overlap |-> FALSE, exc |-> "none", status |-> 0, name |-> Null, pk |-> Null]

InFlight(r) == req[r].pc \notin {"idle", "done"}

\* the users a request in progress has named so far
Names(q) == IF q.pc \in {"idle", "done"} THEN {}
            ELSE {q.user_pk, q.dst} \ {Null}

\* ---- the database ----
UserExists(u) == u \in DOMAIN users

\* The transaction a statement of request r runs in (0 would be autocommit).
NoAtomicScope(r) == Null
AtomicScope(r) == r

\* The lock an UPDATE of user row u takes.
TableLock(u) == 1
RowLock(u) == u

\* A row is visible to every reader once its transaction has committed.
Committed(t) == t.xact = Null

\* Transaction.objects.all() as any reader sees it
VisibleTransactions == {t \in transactions : Committed(t)}

Row(id) == CHOOSE t \in transactions : t.id = id

RECURSIVE SumValues(_)
SumValues(S) == IF S = {} THEN 0
                ELSE LET t == CHOOSE x \in S : TRUE
                     IN t.value + SumValues(S \ {t})

\* User.calc_balance(): the sum of the values of the user's transactions
calc_balance(u) == SumValues({t \in VisibleTransactions : t.user = u})

\* ---- TransactionSerializer.is_valid(raise_exception=True) ----
IsValid(user, value) ==
    IF ~UserExists(user) THEN "UserNotFound"
    ELSE IF value = 0 THEN "TransactionValueZero"
    ELSE IF value < TransactionBoundaryLower \/ value > TransactionBoundaryUpper
         THEN "TransactionValueError"
    ELSE "ok"

\* ---- the except clauses of UserTransactionViewSet.create ----
StatusValueErrorAs400(exc) ==
    CASE exc = "UserNotFound" -> HTTP_404_NOT_FOUND
      [] exc = "TransactionValueZero" -> HTTP_400_BAD_REQUEST
      [] exc = "TransactionValueError" -> HTTP_400_BAD_REQUEST
      [] OTHER -> HTTP_500_INTERNAL_SERVER_ERROR

StatusOf(exc) ==
    CASE exc = "UserNotFound" -> HTTP_404_NOT_FOUND
      [] exc = "TransactionValueZero" -> HTTP_400_BAD_REQUEST
      [] exc = "TransactionValueError" -> HTTP_403_FORBIDDEN
      [] OTHER -> HTTP_500_INTERNAL_SERVER_ERROR

\* a finished request: what it had been asked and how it ended, either
\* with a returned Response or with an exception leaving the handler
Returned(q, st) == [IdleRequest EXCEPT !.pc = "done", !.kind = q.kind,
                                       !.status = st]
Raised(q, exc) == [Returned(q, StatusOf(exc)) EXCEPT !.value = q.value,
                                                     !.exc = exc]

\* user.balance += value
BalancePlus(balance, value) == balance + value

\* ---- leaving the atomic block ----
CommitStore(r) ==
    [users |-> [u \in DOMAIN users |->
                   IF dirty[u].xact = r THEN [balance |-> dirty[u].balance]
                   ELSE users[u]],
     transactions |-> {IF t.xact = r THEN [t EXCEPT !.xact = Null] ELSE t
                       : t \in transactions}]

RollbackKeepsWrites(r) == CommitStore(r)
RollbackStore(r) ==
    [users |-> users,
     transactions |-> {t \in transactions : t.xact # r}]

ReleaseLocks(r) ==
    /\ locks' = [k \in DOMAIN locks |-> IF locks[k] = r THEN Null ELSE locks[k]]
    /\ dirty' = [u \in DOMAIN dirty |->
                    IF dirty[u].xact = r THEN [xact |-> Null, balance |-> 0]
                    ELSE dirty[u]]

\* ---- statements ----
\* Model.save() of a new Transaction: INSERT
InsertTransaction(r, user, value, double_entry_id) ==
    /\ transactions' = transactions \cup
           {[id |-> nextId, user |-> user, value |-> value,
             double_entry_id |-> double_entry_id, xact |-> AtomicScope(r)]}
    /\ nextId' = nextId + 1

\* Model.save() of a User: UPDATE of the whole row with the object's fields
CanUpdateUser(r, u) == locks[RowLock(u)] \in {Null, AtomicScope(r)}

UpdateUser(r, u, balance) ==
    /\ CanUpdateUser(r, u)
    /\ IF AtomicScope(r) = Null
       THEN /\ users' = [users EXCEPT ![u] = [balance |-> balance]]
            /\ UNCHANGED <<locks, dirty>>
       ELSE /\ locks' = [locks EXCEPT ![RowLock(u)] = r]
            /\ dirty' = [dirty EXCEPT ![u] = [xact |-> r, balance |-> balance]]
            /\ UNCHANGED users

\* the user row a request is about to UPDATE
Target(r) ==
    CASE req[r].pc = "save_user" -> req[r].user_pk
      [] req[r].pc = "save_2" -> req[r].user_pk
      [] req[r].pc = "save_dst" -> req[r].dst
      [] OTHER -> Null

Blocked(r) == Target(r) # Null /\ ~CanUpdateUser(r, Target(r))

\* r waits for a lock that h holds
WaitsFor(r, h) == Blocked(r) /\ h # r /\ locks[RowLock(Target(r))] = h

RECURSIVE Reaches(_, _, _)
Reaches(r, h, n) ==
    \/ WaitsFor(r, h)
    \/ n > 0 /\ \E m \in Requests : WaitsFor(r, m) /\ Reaches(m, h, n - 1)

Deadlocked(r) == Reaches(r, r, MaxRequests)

\* ---- Init ----
Init ==
    /\ users = [u \in UserIds |-> [balance |-> 0]]
    /\ dirty = [u \in UserIds |-> [xact |-> Null, balance |-> 0]]
    /\ locks = [k \in UserIds |-> Null]
    /\ transactions = {}
    /\ nextId = 1
    /\ req = [r \in Requests |-> IdleRequest]
    /\ nextRequest = 1
    /\ names = [u \in UserIds |-> u]
    /\ nextUserId = NumUsers + 1

\* ---- the ids a request may name ----
\* A registered user that no request in progress names and that has no
\* transaction and balance 0 is interchangeable with every other such user:
\* a request that names one names the lowest-numbered one.
Known == {u \in DOMAIN users :
            \/ users[u].balance # 0
            \/ \E t \in transactions : t.user = u
            \/ \E x \in Requests : u \in Names(req[x])}

FirstFresh(taken) ==
    LET fresh == DOMAIN users \ (Known \cup taken)
    IN IF fresh = {} THEN {}
       ELSE {CHOOSE u \in fresh : \A v \in fresh : u <= v}

SrcArgs == Known \cup FirstFresh({}) \cup {UnknownUser}
DstArgs(user_pk) ==
    Known \cup FirstFresh({}) \cup FirstFresh({user_pk}) \cup {UnknownUser}

\* Request r arrives as q: r and every request in progress that names one
\* of its users are marked as sharing a user.
Arrive(r, q) ==
    LET shared == {x \in Requests \ {r} : Names(req[x]) \cap Names(q) # {}}
    IN [x \in Requests |->
          IF x = r THEN [q EXCEPT !.overlap = shared # {}]
          ELSE IF x \in shared THEN [req[x] EXCEPT !.overlap = TRUE]
          ELSE req[x]]

\* ---- UserTransactionViewSet.create ----
\* The value of the request is drawn where the handler first uses it, in
\* is_valid; before that only its presence matters.
Create(r) ==
    /\ r = nextRequest
    /\ req[r].pc = "idle"
    /\ Cardinality({x \in Requests : InFlight(x)}) < NumWorkers
    /\ \E has_value \in BOOLEAN, has_dst \in BOOLEAN, user_pk \in SrcArgs :
       \E dst \in DstArgs(user_pk) :
          req' = Arrive(r,
                    IF ~has_value THEN Returned(IdleRequest, HTTP_400_BAD_REQUEST)
                    ELSE IF ~has_dst
                    THEN [IdleRequest EXCEPT !.pc = "get_user", !.kind = "single",
                                             !.user_pk = user_pk]
                    ELSE [IdleRequest EXCEPT !.pc = "get_dst", !.kind = "double",
                                             !.user_pk = user_pk, !.dst = dst])
    /\ nextRequest' = nextRequest + 1
    /\ UNCHANGED store
    /\ UNCHANGED userTable

\* ---- create_single_entry_transaction ----
\* Statements that touch only the request's own transaction (is_valid, the
\* INSERTs, the write-back of the link) are taken in one step with the
\* query before them or the UPDATE after them.

\* serializer.save() without serializer.is_valid()
GetUserUnvalidated(r) ==
    /\ req[r].pc = "get_user"
    /\ UserExists(req[r].user_pk)
    /\ \E value \in ValueInputs :
          /\ InsertTransaction(r, req[r].user_pk, value, Null)
          /\ req' = [req EXCEPT ![r] =
                       [req[r] EXCEPT !.pc = "save_user", !.value = value,
                                      !.src_balance = users[req[r].user_pk].balance,
                                      !.tx1 = nextId]]
    /\ UNCHANGED <<users, dirty, locks, nextRequest>>
    /\ UNCHANGED userTable

\* User.objects.get(pk=user_id), serializer.is_valid(raise_exception=True),
\* serializer.save()
GetUser(r) ==
    /\ req[r].pc = "get_user"
    /\ IF ~UserExists(req[r].user_pk)
       THEN /\ req' = [req EXCEPT ![r] = Raised(req[r], "DoesNotExist")]
            /\ UNCHANGED store
       ELSE \E value \in ValueInputs :
               LET q == [req[r] EXCEPT !.value = value]
                   exc == IsValid(q.user_pk, value)
               IN IF exc # "ok"
                  THEN /\ req' = [req EXCEPT ![r] = Raised(q, exc)]
                       /\ UNCHANGED store
                  ELSE /\ InsertTransaction(r, q.user_pk, value, Null)
                       /\ req' = [req EXCEPT ![r] =
                                    [q EXCEPT !.pc = "save_user",
                                              !.src_balance = users[q.user_pk].balance,
                                              !.tx1 = nextId]]
                       /\ UNCHANGED <<users, dirty, locks>>
    /\ UNCHANGED nextRequest
    /\ UNCHANGED userTable

\* user.balance += value; user.save()
SaveUser(r) ==
    /\ req[r].pc = "save_user"
    /\ UpdateUser(r, req[r].user_pk, BalancePlus(req[r].src_balance, req[r].value))
    /\ req' = [req EXCEPT ![r].pc = "commit"]
    /\ UNCHANGED <<transactions, nextId, nextRequest>>
    /\ UNCHANGED userTable

\* ---- create_double_entry_transactions ----
\* dst_account = User.objects.get(pk=dst_account_id)
GetDst(r) ==
    /\ req[r].pc = "get_dst"
    /\ req' = [req EXCEPT ![r] =
                 IF ~UserExists(req[r].dst) THEN Raised(req[r], "DoesNotExist")
                 ELSE [req[r] EXCEPT !.pc = "get_src",
                                     !.dst_balance = users[req[r].dst].balance]]
    /\ UNCHANGED <<store, nextRequest>>
    /\ UNCHANGED userTable

\* src_account = User.objects.get(pk=src_account_id), both is_valid calls,
\* serializer_1.save()
GetSrc(r) ==
    /\ req[r].pc = "get_src"
    /\ IF ~UserExists(req[r].user_pk)
       THEN /\ req' = [req EXCEPT ![r] = Raised(req[r], "DoesNotExist")]
            /\ UNCHANGED store
       ELSE \E value \in ValueInputs :
               LET q == [req[r] EXCEPT !.value = value]
                   exc1 == IsValid(q.user_pk, value)
                   exc2 == IsValid(q.dst, -value)
               IN IF exc1 # "ok" \/ exc2 # "ok"
                  THEN /\ req' = [req EXCEPT ![r] =
                                    Raised(q, IF exc1 # "ok" THEN exc1 ELSE exc2)]
                       /\ UNCHANGED store
                  ELSE /\ InsertTransaction(r, q.user_pk, value, Null)
                       /\ req' = [req EXCEPT ![r] =
                                    [q EXCEPT !.pc = "save_2",
                                              !.src_balance = users[q.user_pk].balance,
                                              !.tx1 = nextId]]
                       /\ UNCHANGED <<users, dirty, locks>>
    /\ UNCHANGED nextRequest
    /\ UNCHANGED userTable

\* the link written to every transaction of the source account instead of
\* to serializer_1.instance alone
SaveSrcLinksAll(r) ==
    /\ req[r].pc = "save_2"
    /\ transactions' =
          {IF t.user = req[r].user_pk THEN [t EXCEPT !.double_entry_id = nextId]
           ELSE t : t \in transactions} \cup
          {[id |-> nextId, user |-> req[r].dst, value |-> -req[r].value,
            double_entry_id |-> req[r].tx1, xact |-> AtomicScope(r)]}
    /\ nextId' = nextId + 1
    /\ UpdateUser(r, req[r].user_pk, BalancePlus(req[r].src_balance, req[r].value))
    /\ req' = [req EXCEPT ![r].pc = "save_dst", ![r].tx2 = nextId]
    /\ UNCHANGED nextRequest
    /\ UNCHANGED userTable

\* leg 2 saved, but serializer_1.instance never given its double_entry_id
SaveSrcNoWriteBack(r) ==
    /\ req[r].pc = "save_2"
    /\ InsertTransaction(r, req[r].dst, -req[r].value, req[r].tx1)
    /\ UpdateUser(r, req[r].user_pk, BalancePlus(req[r].src_balance, req[r].value))
    /\ req' = [req EXCEPT ![r].pc = "save_dst", ![r].tx2 = nextId]
    /\ UNCHANGED nextRequest
    /\ UNCHANGED userTable

\* serializer_2.save(double_entry_id=serializer_1.instance.id), the link
\* written back to leg 1 by serializer_1.instance.save(), then
\* src_account.balance += value; src_account.save()
SaveSrc(r) ==
    /\ req[r].pc = "save_2"
    /\ transactions' =
          {IF t.id = req[r].tx1 THEN [t EXCEPT !.double_entry_id = nextId] ELSE t
           : t \in transactions} \cup
          {[id |-> nextId, user |-> req[r].dst, value |-> -req[r].value,
            double_entry_id |-> req[r].tx1, xact |-> AtomicScope(r)]}
    /\ nextId' = nextId + 1
    /\ UpdateUser(r, req[r].user_pk, BalancePlus(req[r].src_balance, req[r].value))
    /\ req' = [req EXCEPT ![r].pc = "save_dst", ![r].tx2 = nextId]
    /\ UNCHANGED nextRequest
    /\ UNCHANGED userTable

\* dst_account.balance += -value; dst_account.save()
SaveDst(r) ==
    /\ req[r].pc = "save_dst"
    /\ UpdateUser(r, req[r].dst, BalancePlus(req[r].dst_balance, -req[r].value))
    /\ req' = [req EXCEPT ![r].pc = "commit"]
    /\ UNCHANGED <<transactions, nextId, nextRequest>>
    /\ UNCHANGED userTable

\* serializer_1.data, the body of the 201 response of a transfer: the fields
\* of serializer_1.instance, which are those of its row as last saved
Data1(q) ==
    LET instance == Row(q.tx1)
    IN [id |-> instance.id, user |-> instance.user, value |-> instance.value,
        double_entry_id |-> instance.double_entry_id]

\* ---- the end of `with transaction.atomic()` ----
Commit(r) ==
    /\ req[r].pc = "commit"
    /\ users' = CommitStore(r).users
    /\ transactions' = CommitStore(r).transactions
    /\ ReleaseLocks(r)
    /\ req' = [req EXCEPT ![r] = Returned(req[r], HTTP_201_CREATED)]
    /\ UNCHANGED <<nextId, nextRequest>>
    /\ UNCHANGED userTable

\* the database breaks a lock cycle: the statement of one member raises
\* OperationalError, the atomic block rolls back, no except clause matches
DeadlockAbort(r) ==
    /\ Deadlocked(r)
    /\ users' = RollbackStore(r).users
    /\ transactions' = RollbackStore(r).transactions
    /\ ReleaseLocks(r)
    /\ req' = [req EXCEPT ![r] = Raised(req[r], "OperationalError")]
    /\ UNCHANGED <<nextId, nextRequest>>
    /\ UNCHANGED userTable

Next ==
    \E r \in Requests :
        \/ Create(r)
        \/ GetUser(r)
        \/ SaveUser(r)
        \/ GetDst(r)
        \/ GetSrc(r)
        \/ SaveSrc(r)
        \/ SaveDst(r)
        \/ Commit(r)
        \/ DeadlockAbort(r)

Spec == Init /\ [][Next]_vars

\* ======================= the other views =======================
\* Each of these handlers runs one statement in autocommit, or only reads:
\* it is one step.  A request that has been answered keeps its arguments.

\* strichliste.settings.DEBUG: the debug commands are switched on
DEBUG == TRUE

\* a worker is free for request r
Arrives(r) ==
    /\ r = nextRequest
    /\ req[r].pc = "idle"
    /\ Cardinality({x \in Requests : InFlight(x)}) < NumWorkers

Answered(kind, st, user_pk, pk, name) ==
    [IdleRequest EXCEPT !.pc = "done", !.kind = kind, !.status = st,
                        !.user_pk = user_pk, !.pk = pk, !.name = name]

Answer(r, q) ==
    /\ req' = [req EXCEPT ![r] = q]
    /\ nextRequest' = nextRequest + 1

\* the unique constraint on User.name: INSERT raises IntegrityError
NameTaken(name) == \E u \in DOMAIN names : names[u] = name

\* the names a request may carry: those of the users a request may name,
\* and the lowest name no user has
FreshName ==
    CHOOSE n \in 1..(Cardinality(DOMAIN names) + 1) :
        /\ ~NameTaken(n)
        /\ \A m \in 1..(n - 1) : NameTaken(m)

NameArgs == {names[u] : u \in Known \cup FirstFresh({})} \cup {FreshName}

\* the transaction ids a request may carry: every row's, and one no row has
TransactionArgs == {t.id : t \in transactions} \cup {nextId}

\* the status of UserViewSet.create once the name is known to be present
SavedAlways201(taken) == HTTP_201_CREATED
SavedStatus(taken) == IF taken THEN HTTP_409_CONFLICT ELSE HTTP_201_CREATED

\* a row added to a table of the users
WithRow(table, id, row) ==
    [u \in DOMAIN table \cup {id} |-> IF u = id THEN row ELSE table[u]]

\* ---- UserViewSet.create ----
UserCreate(r) ==
    /\ Arrives(r)
    /\ \E has_name \in BOOLEAN, name \in NameArgs :
          IF ~has_name
          THEN /\ Answer(r, Answered("user_create", HTTP_400_BAD_REQUEST,
                                      Null, Null, Null))
               /\ UNCHANGED <<users, dirty, locks, userTable>>
          ELSE IF SavedStatus(NameTaken(name)) # HTTP_201_CREATED
          THEN /\ Answer(r, Answered("user_create", SavedStatus(NameTaken(name)),
                                      Null, Null, name))
               /\ UNCHANGED <<users, dirty, locks, userTable>>
          ELSE /\ users' = WithRow(users, nextUserId, [balance |-> 0])
               /\ dirty' = WithRow(dirty, nextUserId, [xact |-> Null, balance |-> 0])
               /\ locks' = WithRow(locks, RowLock(nextUserId), Null)
               /\ names' = WithRow(names, nextUserId, name)
               /\ nextUserId' = nextUserId + 1
               /\ Answer(r, Answered("user_create", HTTP_201_CREATED,
                                      nextUserId, Null, name))
    /\ UNCHANGED <<transactions, nextId>>

\* ---- UserViewSet.list ----
UserList(r) ==
    /\ Arrives(r)
    /\ Answer(r, Answered("user_list", HTTP_200_OK, Null, Null, Null))
    /\ UNCHANGED <<store, userTable>>

\* ---- UserViewSet.retrieve ----
UserRetrieve(r) ==
    /\ Arrives(r)
    /\ \E pk \in SrcArgs :
          Answer(r, Answered("user_retrieve",
                             IF UserExists(pk) THEN HTTP_200_OK
                             ELSE HTTP_404_NOT_FOUND,
                             pk, Null, Null))
    /\ UNCHANGED <<store, userTable>>

\* ---- UserTransactionViewSet.list ----
UserTransactionList(r) ==
    /\ Arrives(r)
    /\ \E user_pk \in SrcArgs :
          Answer(r, Answered("user_transaction_list",
                             IF UserExists(user_pk) THEN HTTP_200_OK
                             ELSE HTTP_404_NOT_FOUND,
                             user_pk, Null, Null))
    /\ UNCHANGED <<store, userTable>>

\* ---- UserTransactionViewSet.retrieve ----
\* User.objects.get is not inside a try: User.DoesNotExist leaves the view
UserTransactionRetrieve(r) ==
    /\ Arrives(r)
    /\ \E user_pk \in SrcArgs, pk \in TransactionArgs :
          LET found == {t \in VisibleTransactions : t.user = user_pk /\ t.id = pk}
              q == Answered("user_transaction_retrieve", HTTP_200_OK,
                            user_pk, pk, Null)
          IN Answer(r, IF ~UserExists(user_pk)
                       THEN [q EXCEPT !.exc = "DoesNotExist",
                                      !.status = HTTP_500_INTERNAL_SERVER_ERROR]
                       ELSE IF found = {}
                       THEN [q EXCEPT !.status = HTTP_404_NOT_FOUND]
                       ELSE q)
    /\ UNCHANGED <<store, userTable>>

\* ---- TransactionViewSet.list ----
TransactionList(r) ==
    /\ Arrives(r)
    /\ Answer(r, Answered("transaction_list", HTTP_200_OK, Null, Null, Null))
    /\ UNCHANGED <<store, userTable>>

\* ---- TransactionViewSet.retrieve ----
TransactionRetrieve(r) ==
    /\ Arrives(r)
    /\ \E pk \in TransactionArgs :
          Answer(r, Answered("transaction_retrieve",
                             IF \E t \in VisibleTransactions : t.id = pk
                             THEN HTTP_200_OK ELSE HTTP_404_NOT_FOUND,
                             Null, pk, Null))
    /\ UNCHANGED <<store, userTable>>

\* ---- DebugViewSet.retrieve, command 'clear' ----
\* Transaction.objects.all().delete(): the committed rows go
ClearTransactions(r) ==
    /\ Arrives(r)
    /\ DEBUG
    /\ transactions' = {t \in transactions : ~Committed(t)}
    /\ req' = [req EXCEPT ![r] = [IdleRequest EXCEPT !.pc = "clear_users",
                                                     !.kind = "clear"]]
    /\ nextRequest' = nextRequest + 1
    /\ UNCHANGED <<users, dirty, locks, nextId, userTable>>

\* User.objects.all().delete(): it waits while a creation in progress holds
\* a lock on a user row or has inserted a row that refers to one; the
\* transactions committed since the first statement go with their users.
ClearUsers(r) ==
    /\ req[r].pc = "clear_users"
    /\ \A k \in DOMAIN locks : locks[k] = Null
    /\ \A t \in transactions : Committed(t)
    /\ users' = [u \in {} |-> [balance |-> 0]]
    /\ dirty' = [u \in {} |-> [xact |-> Null, balance |-> 0]]
    /\ locks' = [u \in {} |-> Null]
    /\ names' = [u \in {} |-> Null]
    /\ transactions' = {}
    /\ req' = [req EXCEPT ![r] = Answered("clear", HTTP_200_OK, Null, Null, Null)]
    /\ UNCHANGED <<nextId, nextRequest, nextUserId>>

ApiNext ==
    \/ Next
    \/ \E r \in Requests :
          \/ UserCreate(r)
          \/ UserList(r)
          \/ UserRetrieve(r)
          \/ UserTransactionList(r)
          \/ UserTransactionRetrieve(r)
          \/ TransactionList(r)
          \/ TransactionRetrieve(r)
          \/ ClearTransactions(r)
          \/ ClearUsers(r)

ApiSpec == Init /\ [][ApiNext]_vars

\* ======================= properties =======================

\* this step ends request r
Finishes(r) == InFlight(r) /\ req'[r].pc = "done"
\* this step ends request r with 201: its atomic block commits
Commits(r) == Finishes(r) /\ req'[r].status = HTTP_201_CREATED
\* no transaction-creation request is in progress
Quiescent == \A r \in Requests : ~InFlight(r)
\* the rows request r has inserted
RowsOf(r) == {t \in transactions : t.id \in {req[r].tx1, req[r].tx2} \ {Null}}
\* the rows a step makes visible
NewRows == VisibleTransactions' \ VisibleTransactions
\* the committed store as every reader sees it
VisibleStoreUnchanged ==
    users' = users /\ VisibleTransactions' = VisibleTransactions
\* both legs of a transfer of this value pass the validator
BothLegsValid(q) ==
    IsValid(q.user_pk, q.value) = "ok" /\ IsValid(q.dst, -q.value) = "ok"

\* C1: whenever no creation request is in progress, every user's balance
\* equals the sum of the values of that user's transactions.
BalanceReconciliation ==
    Quiescent => \A u \in UserIds : users[u].balance = calc_balance(u)

\* C2: every committed transaction with a double_entry_id points to an
\* existing transaction of another user with the negated value that points
\* back.
DoubleEntryLinkage ==
    \A t \in VisibleTransactions :
        t.double_entry_id # Null =>
            \E d \in VisibleTransactions :
                /\ d.id = t.double_entry_id
                /\ d.value = -t.value
                /\ d.double_entry_id = t.id
                /\ d.user # t.user

\* no committed pair of legs belongs to one user
NoSelfTransfer ==
    \A t, d \in VisibleTransactions :
        t.double_entry_id = d.id => t.user # d.user

\* C3: once the requests have committed, whatever way their steps
\* interleaved, every balance is the starting balance (0) plus the deltas of
\* the committed requests; transfers from a user to itself set aside.
NoLostUpdate ==
    (Quiescent /\ NoSelfTransfer) =>
        \A u \in UserIds : users[u].balance = calc_balance(u)

\* C4: a step of a createDoubleEntry request that does not commit it leaves
\* every balance and every visible transaction as they were, and a request
\* that ends without 201 leaves no row of its own behind.
FailureAtomicity ==
    [][\A r \in Requests :
          (req[r].kind = "double" /\ req'[r] # req[r] /\ ~Commits(r)) =>
              /\ VisibleStoreUnchanged
              /\ Finishes(r) => \A t \in transactions' : t \notin RowsOf(r)]_vars

\* C4 witness: a transfer was refused because of leg 2 alone (value in
\* range, -value out of range).
FailureAtomicityWitness ==
    \E r \in Requests :
        /\ req[r].pc = "done"
        /\ req[r].kind = "double"
        /\ req[r].status = HTTP_403_FORBIDDEN
        /\ req[r].value <= TransactionBoundaryUpper
        /\ -req[r].value < TransactionBoundaryLower

\* C5: an accepted transfer from a user to itself creates two rows, value
\* and -value, and leaves the user's balance as it was.
SelfTransferKeepsBalance ==
    [][\A r \in Requests :
          (Commits(r) /\ req[r].kind = "double" /\ req[r].user_pk = req[r].dst) =>
              /\ Cardinality(NewRows) = 2
              /\ \A t \in NewRows : t.user = req[r].user_pk
              /\ {t.value : t \in NewRows} = {req[r].value, -req[r].value}
              /\ users'[req[r].user_pk].balance = users[req[r].user_pk].balance]_vars

\* the two linked legs a committing transfer makes visible
LegsCreated(r) ==
    NewRows = {[id |-> req[r].tx1, user |-> req[r].user_pk, value |-> req[r].value,
                double_entry_id |-> req[r].tx2, xact |-> Null],
               [id |-> req[r].tx2, user |-> req[r].dst, value |-> -req[r].value,
                double_entry_id |-> req[r].tx1, xact |-> Null]}

\* C6: a successful transfer between two different users creates exactly
\* the two mutually linked legs (src, value) and (dst, -value) and changes
\* src's balance by +value and dst's by -value.
DoubleEntryEffect ==
    [][\A r \in Requests :
          (Commits(r) /\ req[r].kind = "double" /\ req[r].user_pk # req[r].dst) =>
              /\ LegsCreated(r)
              /\ users'[req[r].user_pk].balance =
                     users[req[r].user_pk].balance + req[r].value
              /\ users'[req[r].dst].balance =
                     users[req[r].dst].balance - req[r].value]_vars

\* the one unlinked row a committing single entry makes visible
EntryCreated(r) ==
    NewRows = {[id |-> req[r].tx1, user |-> req[r].user_pk, value |-> req[r].value,
                double_entry_id |-> Null, xact |-> Null]}

\* C7: a successful single entry creates exactly one unlinked transaction
\* of the user and raises the user's balance by exactly the value, both in
\* one step.
SingleEntryEffect ==
    [][\A r \in Requests :
          (Commits(r) /\ req[r].kind = "single") =>
              /\ EntryCreated(r)
              /\ users'[req[r].user_pk].balance =
                     users[req[r].user_pk].balance + req[r].value]_vars

\* C8: a creation request (with a value) whose user id or dst id is no
\* user's ends with 404 and changes neither rows nor balances.
UnknownUserIs404 ==
    [][\A r \in Requests :
          (/\ Finishes(r)
           /\ \/ ~UserExists(req[r].user_pk)
              \/ req[r].kind = "double" /\ ~UserExists(req[r].dst)) =>
              /\ req'[r].status = HTTP_404_NOT_FOUND
              /\ VisibleStoreUnchanged]_vars

\* what a reader can see while creations are in progress
NoPartialRows ==
    /\ \A r \in Requests : InFlight(r) => RowsOf(r) \cap VisibleTransactions = {}
    /\ \A t \in VisibleTransactions :
          t.double_entry_id # Null =>
              \E d \in VisibleTransactions :
                  d.id = t.double_entry_id /\ d.double_entry_id = t.id
    /\ \A r \in Requests :
          (req[r].pc = "commit" /\ req[r].kind = "double") =>
              /\ Row(req[r].tx1).double_entry_id = req[r].tx2
              /\ Row(req[r].tx2).double_entry_id = req[r].tx1

\* C9: no reader sees an intermediate state of a creation: the rows of a
\* request in progress are invisible, a visible leg has its partner and
\* its link, and rows and balance updates of a request become visible in
\* one and the same step.
NoPartialStateVisible ==
    /\ []NoPartialRows
    /\ [][~VisibleStoreUnchanged =>
            \E r \in Requests :
                /\ Commits(r)
                /\ NewRows = {[t EXCEPT !.xact = Null] : t \in RowsOf(r)}
                /\ NewRows # {}
                /\ \A u \in UserIds :
                      users'[u] # users[u] => u \in Names(req[r])
                /\ \A u \in Names(req[r]) :
                      users'[u].balance = dirty[u].balance]_vars

\* C9 witness: leg 1 of a transfer is in the table, unlinked and without
\* leg 2, while other rows are visible to readers.
NoPartialStateVisibleWitness ==
    \E r \in Requests :
        /\ req[r].pc = "save_2"
        /\ Row(req[r].tx1).double_entry_id = Null
        /\ VisibleTransactions # {}

\* C10: a transfer that shares no user with any request in progress during
\* its life is never made to wait, is never aborted, and commits with both
\* balances changed by exactly its deltas.
DisjointTransfersProceed ==
    /\ [](\A r \in Requests : Blocked(r) => req[r].overlap)
    /\ [][\A r \in Requests :
            (/\ Finishes(r)
             /\ req[r].kind = "double"
             /\ ~req[r].overlap
             /\ req[r].user_pk # req[r].dst
             /\ BothLegsValid(req[r])) =>
                /\ Commits(r)
                /\ users'[req[r].user_pk].balance =
                       users[req[r].user_pk].balance + req[r].value
                /\ users'[req[r].dst].balance =
                       users[req[r].dst].balance - req[r].value]_vars

\* C10 witness: a transfer about to commit whose inserts interleaved with
\* those of another transfer over two other users, which has committed.
DisjointTransfersProceedWitness ==
    \E r \in Requests :
        /\ req[r].pc = "commit"
        /\ req[r].kind = "double"
        /\ ~req[r].overlap
        /\ req[r].tx2 > req[r].tx1 + 1
        /\ \E t \in VisibleTransactions :
              /\ t.id > req[r].tx1 /\ t.id < req[r].tx2
              /\ t.double_entry_id # Null
              /\ t.user \notin Names(req[r])
              /\ Row(t.double_entry_id).user \notin Names(req[r])

\* ---- value errors ----
\* this step of request r runs the handler's validation (the value is
\* drawn here, req'[r].value) and every user the request names exists
Validates(r) ==
    /\ req[r].pc \in {"get_user", "get_src"}
    /\ req'[r].pc # req[r].pc
    /\ UserExists(req[r].user_pk)
    /\ req[r].kind = "double" => UserExists(req[r].dst)

OutOfRange(value) ==
    value < TransactionBoundaryLower \/ value > TransactionBoundaryUpper

\* a creation request arrives without a value and is answered at once
MissingValue(r) ==
    req[r].pc = "idle" /\ req'[r].pc = "done" /\ req'[r].kind = "none"

\* C11: with every named user existing, a missing value ends the request
\* with 400, value 0 with 400 (TransactionValueZero), a value out of range
\* on either leg with 403 (TransactionValueError); in each case no row is
\* inserted and no balance written.
ValueErrorOutcomes ==
    [][\A r \in Requests :
          /\ MissingValue(r) =>
                req'[r].status = HTTP_400_BAD_REQUEST /\ UNCHANGED store
          /\ (Validates(r) /\ req'[r].value = 0) =>
                /\ req'[r].pc = "done"
                /\ req'[r].status = HTTP_400_BAD_REQUEST
                /\ req'[r].exc = "TransactionValueZero"
                /\ UNCHANGED store
          /\ (/\ Validates(r)
              /\ req'[r].value # 0
              /\ \/ OutOfRange(req'[r].value)
                 \/ req[r].kind = "double" /\ OutOfRange(-req'[r].value)) =>
                /\ req'[r].pc = "done"
                /\ req'[r].status = HTTP_403_FORBIDDEN
                /\ req'[r].exc = "TransactionValueError"
                /\ UNCHANGED store]_vars

\* C11 witness: a single entry with a value above the upper boundary has
\* been refused while another request had already committed a row.
ValueErrorOutcomesWitness ==
    \E r \in Requests :
        /\ req[r].pc = "done"
        /\ req[r].kind = "single"
        /\ req[r].exc = "TransactionValueError"
        /\ req[r].value > TransactionBoundaryUpper
        /\ VisibleTransactions # {}

\* ---- the life of a creation request ----
Phase(q) ==
    CASE q.pc = "idle" -> "Idle"
      [] q.pc \in {"get_user", "get_dst", "get_src"} -> "Validating"
      [] q.pc \in {"save_user", "save_2", "save_dst", "commit"} -> "Persisting"
      [] q.pc = "done" /\ q.status = HTTP_201_CREATED -> "Committed"
      [] OTHER -> "Aborted"

PhaseSteps ==
    {<<"Idle", "Validating">>, <<"Idle", "Aborted">>,
     <<"Validating", "Validating">>, <<"Validating", "Persisting">>,
     <<"Validating", "Aborted">>, <<"Persisting", "Persisting">>,
     <<"Persisting", "Committed">>, <<"Persisting", "Aborted">>}

\* request r has written to the store inside its atomic block
HasWritten(r) ==
    \/ \E t \in transactions : t.xact = r
    \/ \E u \in DOMAIN dirty : dirty[u].xact = r
    \/ \E k \in DOMAIN locks : locks[k] = r

\* the request names existing users and its value passes on every leg
Accepted(q) ==
    /\ UserExists(q.user_pk)
    /\ q.value # 0 /\ ~OutOfRange(q.value)
    /\ q.kind = "double" => UserExists(q.dst) /\ ~OutOfRange(-q.value)

\* C12: a creation request goes Validating -> Persisting -> Committed or
\* ends Aborted, and it has written nothing to the store (row, link,
\* balance) unless all its validation has passed.
ValidateBeforeWrite ==
    /\ [](\A r \in Requests :
            /\ HasWritten(r) => Phase(req[r]) = "Persisting" /\ Accepted(req[r])
            /\ Phase(req[r]) = "Validating" => ~HasWritten(r))
    /\ [][\A r \in Requests :
            /\ req'[r].pc # req[r].pc =>
                  <<Phase(req[r]), Phase(req'[r])>> \in PhaseSteps
            /\ (Phase(req[r]) = "Validating" /\ Phase(req'[r]) = "Aborted") =>
                  UNCHANGED store]_vars

\* C12 witness: a transfer in its Persisting phase with both legs written
\* and the source balance saved, next to a request refused in validation.
ValidateBeforeWriteWitness ==
    \E r, x \in Requests :
        /\ req[r].pc = "save_dst"
        /\ Cardinality(RowsOf(r)) = 2
        /\ dirty[req[r].user_pk].xact = r
        /\ req[x].pc = "done"
        /\ req[x].exc \in {"TransactionValueZero", "TransactionValueError"}

\* ---- store conflicts ----
\* this step ends request r because the database aborted its atomic block
ConflictSurfaced(r) == Finishes(r) /\ req'[r].exc = "OperationalError"

\* C14: a creation request that hits a store conflict (deadlock) is run
\* again by the handler; the conflict reaches the client only once the
\* retries are used up, and then as 409 or 503.
ConflictIsRetried ==
    [][\A r \in Requests :
          ConflictSurfaced(r) => req'[r].status \in {HTTP_409_CONFLICT, 503}]_vars

\* ---- conservation ----
RECURSIVE SumBalances(_, _)
SumBalances(table, ids) ==
    IF ids = {} THEN 0
    ELSE LET u == CHOOSE x \in ids : TRUE
         IN table[u].balance + SumBalances(table, ids \ {u})

TotalBalance == SumBalances(users, DOMAIN users)

\* C17: a committing transfer leaves the sum of all balances unchanged,
\* and whenever no request is in progress the sum of all balances equals
\* the sum of the values of the single-entry (unlinked) transactions.
BalanceConservation ==
    /\ [](Quiescent =>
            TotalBalance =
               SumValues({t \in VisibleTransactions : t.double_entry_id = Null}))
    /\ [][\A r \in Requests :
            (Commits(r) /\ req[r].kind = "double") =>
                SumBalances(users', DOMAIN users') = TotalBalance]_vars

\* ---- the response of a transfer ----
\* C18: the body of the 201 response of a transfer is leg 1 (user src,
\* value as requested) with its final double_entry_id: not null, and the
\* id of the leg-2 row (user dst, -value) that the same commit makes
\* visible.
ReturnedRecord ==
    [][\A r \in Requests :
          (Commits(r) /\ req[r].kind = "double") =>
              /\ Data1(req[r]).user = req[r].user_pk
              /\ Data1(req[r]).value = req[r].value
              /\ Data1(req[r]).double_entry_id # Null
              /\ \E t \in NewRows :
                    /\ t.id = Data1(req[r]).double_entry_id
                    /\ t.id # Data1(req[r]).id
                    /\ t.user = req[r].dst
                    /\ t.value = -req[r].value
                    /\ t.double_entry_id = Data1(req[r]).id
              /\ \E t \in NewRows :
                    [k \in DOMAIN Data1(req[r]) |-> t[k]] = Data1(req[r])]_vars

\* C18 witness: a transfer has committed whose legs do not have
\* consecutive ids (another request inserted a row between them).
ReturnedRecordWitness ==
    \E t \in VisibleTransactions :
        /\ t.double_entry_id # Null
        /\ t.double_entry_id > t.id + 1
        /\ t.value > 0

\* ---- precedence of the errors ----
\* this step ends request r in a lookup of a user that does not exist;
\* the request's value, whatever it is, has not been looked at yet
LookupFails(r) ==
    /\ Finishes(r)
    /\ \/ req[r].pc \in {"get_user", "get_src"} /\ ~UserExists(req[r].user_pk)
       \/ req[r].pc = "get_dst" /\ ~UserExists(req[r].dst)

\* C20: a missing value is answered with 400 whatever users are named; with
\* a value present, a request naming a user that does not exist ends with
\* the user-not-found outcome (404) whatever its value, never with a value
\* error; and with all users existing, an invalid leg 1 decides the error.
ErrorPrecedence ==
    [][\A r \in Requests :
          /\ MissingValue(r) => req'[r].status = HTTP_400_BAD_REQUEST
          /\ LookupFails(r) =>
                /\ req'[r].status = HTTP_404_NOT_FOUND
                /\ req'[r].exc \notin {"TransactionValueZero", "TransactionValueError"}
          /\ (Validates(r) /\ req'[r].value = 0) =>
                req'[r].exc = "TransactionValueZero"
          /\ (Validates(r) /\ req'[r].value # 0 /\ OutOfRange(req'[r].value)) =>
                req'[r].exc = "TransactionValueError"]_vars

\* ---- the other views: what a step answers ----
\* this step answers request r, of the given kind, in one step
AnswersAs(r, kind) ==
    req[r].pc = "idle" /\ req'[r].pc = "done" /\ req'[r].kind = kind

\* C13: GET of transaction pk under user user_pk answers 200 exactly when
\* the transaction exists and belongs to that user, and 404 in every other
\* case: no such transaction, another user's transaction, no such user.
ScopedRetrieval ==
    [][\A r \in Requests :
          AnswersAs(r, "user_transaction_retrieve") =>
              req'[r].status =
                 IF \E t \in VisibleTransactions :
                       t.id = req'[r].pk /\ t.user = req'[r].user_pk
                 THEN HTTP_200_OK ELSE HTTP_404_NOT_FOUND]_vars

\* ---- the ledger ----
\* a step changes no committed row, and changes a row of an atomic block
\* in progress only by the write-back of the link or by its commit
RowsKept ==
    /\ VisibleTransactions \subseteq VisibleTransactions'
    /\ \A t \in transactions, n \in transactions' :
          (n.id = t.id /\ n # t) =>
              /\ ~Committed(t)
              /\ \/ n = [t EXCEPT !.xact = Null]
                 \/ /\ t.double_entry_id = Null
                    /\ n = [t EXCEPT !.double_entry_id = n.double_entry_id]
                    /\ \E r \in Requests : t.xact = r /\ req'[r].tx2 = n.double_entry_id

\* a step of the debug command clear
ClearStep ==
    \E r \in Requests : req'[r].kind = "clear" /\ req'[r].pc # req[r].pc

\* C15: a committed transaction row is never deleted or changed by any
\* later operation, and a row is updated only by the write-back of leg 1's
\* double_entry_id inside the atomic block that created it.
AppendOnly == [][RowsKept]_vars

\* C15 as amended: the same of every operation other than the debug
\* command clear.
AppendOnlyExceptClear == [][~ClearStep => RowsKept]_vars

\* C15 witness: a transaction was read back with 200 after its commit and
\* is still there, both legs of a transfer among the visible rows.
AppendOnlyWitness ==
    \E r \in Requests :
        /\ req[r].kind = "transaction_retrieve"
        /\ req[r].status = HTTP_200_OK
        /\ \E t \in VisibleTransactions :
              t.id = req[r].pk /\ t.double_entry_id # Null

\* ---- the users ----
UsersUnchanged == users' = users /\ names' = names

\* C16: no two users ever share a name; create-user answers 409 for a name
\* some user has and 400 for a missing name, adding no user, and otherwise
\* answers 201 and adds exactly one user, with that name.
UniqueNames ==
    /\ [](\A u, v \in DOMAIN names : names[u] = names[v] => u = v)
    /\ [][\A r \in Requests :
            AnswersAs(r, "user_create") =>
                LET name == req'[r].name
                    added == DOMAIN users' \ DOMAIN users
                IN IF name = Null
                   THEN req'[r].status = HTTP_400_BAD_REQUEST /\ UsersUnchanged
                   ELSE IF \E u \in DOMAIN names : names[u] = name
                   THEN req'[r].status = HTTP_409_CONFLICT /\ UsersUnchanged
                   ELSE /\ req'[r].status = HTTP_201_CREATED
                        /\ Cardinality(added) = 1
                        /\ DOMAIN users \subseteq DOMAIN users'
                        /\ \A u \in added : names'[u] = name
                        /\ \A u \in DOMAIN users :
                              users'[u] = users[u] /\ names'[u] = names[u]]_vars

\* C16 witness: one create-user was refused with 409 and another one
\* added a user.
UniqueNamesWitness ==
    \E r, x \in Requests :
        /\ req[r].kind = "user_create" /\ req[r].status = HTTP_409_CONFLICT
        /\ req[x].kind = "user_create" /\ req[x].status = HTTP_201_CREATED
        /\ req[x].user_pk \in DOMAIN users
        /\ names[req[x].user_pk] = req[x].name

\* ---- the frame of the balances ----
Creations == {"single", "double"}

\* the views that create no transaction and run no debug command
OtherViews ==
    {"user_create", "user_list", "user_retrieve", "user_transaction_list",
     "user_transaction_retrieve", "transaction_list", "transaction_retrieve"}

\* the balances of the users there were and the committed rows stay
LedgerUnchanged ==
    /\ \A u \in DOMAIN users : u \in DOMAIN users' /\ users'[u] = users[u]
    /\ VisibleTransactions' = VisibleTransactions

\* what a step that changes a balance or a committed row has to be
FrameOfStep ==
    /\ \A u \in DOMAIN users \cap DOMAIN users' :
          users'[u] # users[u] =>
              \E r \in Requests :
                  /\ Commits(r)
                  /\ req[r].kind \in Creations
                  /\ u \in Names(req[r])
    /\ \A r \in Requests :
          /\ (\E kind \in OtherViews : AnswersAs(r, kind)) => LedgerUnchanged
          /\ MissingValue(r) => LedgerUnchanged
          /\ (Finishes(r) /\ ~Commits(r) /\ req[r].kind \in Creations) =>
                LedgerUnchanged
          /\ (Commits(r) /\ req[r].kind \in Creations) =>
                /\ \A u \in DOMAIN users \ Names(req[r]) :
                      u \in DOMAIN users' /\ users'[u] = users[u]
                /\ VisibleTransactions \subseteq VisibleTransactions'

\* C19: the balance of a user changes only in the commit of a single entry
\* or transfer that names the user; user creation, the list and retrieve
\* views and every failed creation leave all balances and all committed
\* transactions as they were, and a committing creation leaves the balances
\* of the users it does not name and the rows committed before.  (A step
\* that changes neither a balance nor a committed row satisfies all of it.)
BalanceFrame ==
    [][\/ users' = users /\ VisibleTransactions' = VisibleTransactions
       \/ FrameOfStep]_vars

\* C19 witness: a user's transaction was read back with 200 under that
\* user after its commit, and the balance the commit wrote is still there.
BalanceFrameWitness ==
    \E r \in Requests :
        /\ req[r].kind = "user_transaction_retrieve"
        /\ req[r].status = HTTP_200_OK
        /\ req[r].user_pk \in DOMAIN users
        /\ users[req[r].user_pk].balance # 0
        /\ \E t \in VisibleTransactions :
              t.id = req[r].pk /\ t.value = users[req[r].user_pk].balance

====
